---- MODULE Spec2Model ----
(***************************************************************************)
(* Model of the instrument drivers of "Creating Instrument Drivers.ipynb":  *)
(* Weinschel_8320, Keithley_2600, AlazarTech_ATS, Ithaco_1211 and           *)
(* CurrentParameter, together with the parts of the qcodes parameter        *)
(* framework they call (validators, StandardParameter, ManualParameter,     *)
(* VisaInstrument) and the instruments at the other end of the wire.        *)
(***************************************************************************)
EXTENDS Integers, Sequences, FiniteSets, TLC

(***************************************************************************)
(* Python values.  A number is a decimal m * 10^e kept normalised (m has no *)
(* trailing zero), so that 2, 2.0 and 20e-1 are the same number, as they    *)
(* are for Python's == and hash.  t is the Python type.                     *)
(***************************************************************************)
RECURSIVE Pow10(_)
Pow10(k) == IF k <= 0 THEN 1 ELSE 10 * Pow10(k - 1)

Abs(n) == IF n < 0 THEN -n ELSE n

RECURSIVE Norm(_, _)
Norm(m, e) ==
    IF m = 0 THEN [m |-> 0, e |-> 0]
    ELSE IF m % 10 = 0 THEN Norm(m \div 10, e + 1)
    ELSE [m |-> m, e |-> e]

PyNum(t, m, e)  == [t |-> t, m |-> Norm(m, e).m, e |-> Norm(m, e).e, s |-> ""]
PyInt(n)        == PyNum("int", n, 0)
PyFloat(m, e)   == PyNum("float", m, e)
PyBool(b)       == PyNum("bool", IF b THEN 1 ELSE 0, 0)
PyStr(s)        == [t |-> "str", m |-> 0, e |-> 0, s |-> s]
PyNone          == [t |-> "NoneType", m |-> 0, e |-> 0, s |-> ""]

IsNumber(x)     == x.t \in {"int", "float", "bool"}

\* Python's ==, as used by `in` on the tuple or set of an Enum validator.
PyEq(x, y) ==
    \/ IsNumber(x) /\ IsNumber(y) /\ x.m = y.m /\ x.e = y.e
    \/ x.t = "str" /\ y.t = "str" /\ x.s = y.s
    \/ x.t = "NoneType" /\ y.t = "NoneType"

\* Python's truth value, as tested by `if x:` and `not x`.
PyTruthy(x) ==
    CASE IsNumber(x)     -> x.m # 0
      [] x.t = "str"     -> x.s # ""
      [] OTHER           -> FALSE

\* x * y on numbers; the product of two ints is an int, else a float.
PyMul(x, y) ==
    PyNum(IF x.t = "float" \/ y.t = "float" THEN "float" ELSE "int",
          x.m * y.m, x.e + y.e)

(***************************************************************************)
(* Strings: formatting and parsing, character by character.                *)
(***************************************************************************)
Digits == <<"0", "1", "2", "3", "4", "5", "6", "7", "8", "9">>

CharAt(s, i) == SubSeq(s, i, i)

StartsWith(s, p) == Len(s) >= Len(p) /\ SubSeq(s, 1, Len(p)) = p

EndsWith(s, p) == Len(s) >= Len(p) /\ SubSeq(s, Len(s) - Len(p) + 1, Len(s)) = p

\* s[n:]
DropFirst(s, n) == IF n >= Len(s) THEN "" ELSE SubSeq(s, n + 1, Len(s))

IsDigit(c) == \E d \in 1..10 : Digits[d] = c

DigitVal(c) == (CHOOSE d \in 1..10 : Digits[d] = c) - 1

\* str(n) for a natural number n
RECURSIVE NatStr(_)
NatStr(n) == IF n < 10 THEN Digits[n + 1] ELSE NatStr(n \div 10) \o Digits[(n % 10) + 1]

\* str(n) for an integer n
IntStr(n) == IF n < 0 THEN "-" \o NatStr(-n) ELSE NatStr(n)

RECURSIVE ZeroPad(_, _)
ZeroPad(s, width) == IF Len(s) >= width THEN s ELSE ZeroPad("0" \o s, width)

\* |m * 10^e| * 10^prec rounded to an integer, ties to even
RoundScaled(m, e, prec) ==
    LET a == Abs(m)
        k == e + prec
        d == Pow10(-k)
        q == a \div d
        r == a % d
    IN  IF k >= 0 THEN a * Pow10(k)
        ELSE IF 2 * r > d THEN q + 1
        ELSE IF 2 * r = d THEN q + (q % 2)
        ELSE q

\* '{:0<width>.<prec>f}'.format(x) for a number x (width 0: no padding)
FormatFixed(x, width, prec) ==
    LET n    == RoundScaled(x.m, x.e, prec)
        sign == IF x.m < 0 THEN "-" ELSE ""
        ip   == NatStr(n \div Pow10(prec))
        fp   == IF prec = 0 THEN ""
                ELSE "." \o ZeroPad(NatStr(n % Pow10(prec)), prec)
    IN  sign \o ZeroPad(ip \o fp, width - Len(sign))

\* all characters of s are digits, and there is at least one
RECURSIVE AllDigits(_)
AllDigits(s) ==
    /\ Len(s) > 0
    /\ IsDigit(CharAt(s, 1))
    /\ (Len(s) = 1 \/ AllDigits(DropFirst(s, 1)))

RECURSIVE DigitsVal(_, _)
DigitsVal(s, acc) ==
    IF Len(s) = 0 THEN acc
    ELSE DigitsVal(DropFirst(s, 1), 10 * acc + DigitVal(CharAt(s, 1)))

\* the position of the first occurrence of character c in s, 0 if none
RECURSIVE IndexOf(_, _, _)
IndexOf(s, c, i) ==
    IF i > Len(s) THEN 0
    ELSE IF CharAt(s, i) = c THEN i
    ELSE IndexOf(s, c, i + 1)

IsSpace(c) == c \in {" ", "\t", "\n", "\r"}

\* str.strip
RECURSIVE Strip(_)
Strip(s) ==
    IF Len(s) = 0 THEN s
    ELSE IF IsSpace(CharAt(s, 1)) THEN Strip(DropFirst(s, 1))
    ELSE IF IsSpace(CharAt(s, Len(s))) THEN Strip(SubSeq(s, 1, Len(s) - 1))
    ELSE s

\* str.split(c), a sequence of strings
RECURSIVE Split(_, _)
Split(s, c) ==
    LET i == IndexOf(s, c, 1)
    IN  IF i = 0 THEN <<s>>
        ELSE <<SubSeq(s, 1, i - 1)>> \o Split(DropFirst(s, i), c)

RECURSIVE TrimZeros(_)
TrimZeros(s) ==
    IF Len(s) > 0 /\ CharAt(s, Len(s)) = "0" THEN TrimZeros(SubSeq(s, 1, Len(s) - 1))
    ELSE s

Unsigned(s) == IF Len(s) > 0 /\ CharAt(s, 1) \in {"+", "-"} THEN DropFirst(s, 1) ELSE s

SignOf(s) == IF Len(s) > 0 /\ CharAt(s, 1) = "-" THEN -1 ELSE 1

\* int(s): [ok, n]
ParseInt(s) ==
    LET b == Unsigned(Strip(s))
    IN  IF AllDigits(b) THEN [ok |-> TRUE, n |-> SignOf(Strip(s)) * DigitsVal(b, 0)]
        ELSE [ok |-> FALSE, n |-> 0]

\* float(s): [ok, m, e] for [sign] digits [. digits] [e [sign] digits]
ParseFloat(s) ==
    LET t     == Strip(s)
        body  == Unsigned(t)
        xi    == IF IndexOf(body, "e", 1) # 0 THEN IndexOf(body, "e", 1)
                 ELSE IndexOf(body, "E", 1)
        mant  == IF xi = 0 THEN body ELSE SubSeq(body, 1, xi - 1)
        expo  == IF xi = 0 THEN "0" ELSE DropFirst(body, xi)
        pi    == IndexOf(mant, ".", 1)
        ipart == IF pi = 0 THEN mant ELSE SubSeq(mant, 1, pi - 1)
        fpart == IF pi = 0 THEN "" ELSE TrimZeros(DropFirst(mant, pi))
        fraw  == IF pi = 0 THEN "" ELSE DropFirst(mant, pi)
        x     == ParseInt(expo)
        ok    == /\ Len(ipart) + Len(fraw) > 0
                 /\ (Len(ipart) = 0 \/ AllDigits(ipart))
                 /\ (Len(fraw) = 0 \/ AllDigits(fraw))
                 /\ x.ok /\ expo = Strip(expo)
    IN  IF ok
        THEN [ok |-> TRUE,
              m  |-> Norm(SignOf(t) * DigitsVal(ipart \o fpart, 0), x.n - Len(fpart)).m,
              e  |-> Norm(SignOf(t) * DigitsVal(ipart \o fpart, 0), x.n - Len(fpart)).e]
        ELSE [ok |-> FALSE, m |-> 0, e |-> 0]

(***************************************************************************)
(* The parameter framework the drivers are written against.                *)
(***************************************************************************)
\* validators
Enum(values) == [kind |-> "Enum", values |-> values]
Bool         == [kind |-> "Bool", values |-> {}]
Numbers      == [kind |-> "Numbers", values |-> {}]

\* Validator.validate(value): TRUE when it returns, FALSE when it raises
Validate(vals, value) ==
    CASE vals.kind = "Enum"    -> \E y \in vals.values : PyEq(value, y)
      [] vals.kind = "Bool"    -> value.t = "bool"
      [] vals.kind = "Numbers" -> IsNumber(value)

\* a val_mapping is a set of <<value, code>> pairs (a dict)
NoMapping == {}
MapKeys(mapping) == {kv[1] : kv \in mapping}
MapHas(mapping, k) == \E kv \in mapping : PyEq(kv[1], k)
MapGet(mapping, k) == (CHOOSE kv \in mapping : PyEq(kv[1], k))[2]
\* {v: k for k, v in val_mapping.items()}
Inverse(mapping) == {<<kv[2], kv[1]>> : kv \in mapping}

\* a string set_cmd 'prefix{:0<width>.<prec>f}' or 'prefix{:d}'
SetCmd(prefix, conv, width, prec) ==
    [prefix |-> prefix, conv |-> conv, width |-> width, prec |-> prec]

\* StandardParameter.__init__: with a val_mapping and no vals the validator
\* is the Enum of its keys, sets encode through it and gets decode through
\* its inverse; without vals and val_mapping the validator is Numbers().
StandardParameter(get_cmd, get_parser, set_cmd, vals, val_mapping) ==
    [get_cmd     |-> get_cmd,
     get_parser  |-> IF val_mapping # NoMapping /\ get_parser = "none"
                     THEN "valmapping" ELSE get_parser,
     set_cmd     |-> set_cmd,
     vals        |-> IF vals.kind # "None" THEN vals
                     ELSE IF val_mapping # NoMapping THEN Enum(MapKeys(val_mapping))
                     ELSE Numbers,
     set_mapping |-> val_mapping,
     get_mapping |-> Inverse(val_mapping)]

NoVals == [kind |-> "None", values |-> {}]

\* set_cmd.format(value): [ok, s]
FormatCmd(set_cmd, value) ==
    CASE set_cmd.conv = "f" /\ IsNumber(value) ->
            [ok |-> TRUE,
             s  |-> set_cmd.prefix \o FormatFixed(value, set_cmd.width, set_cmd.prec)]
      [] set_cmd.conv = "d" /\ value.t \in {"int", "bool"} /\ value.e = 0 ->
            [ok |-> TRUE, s |-> set_cmd.prefix \o IntStr(value.m)]
      [] OTHER -> [ok |-> FALSE, s |-> ""]

\* StandardParameter.set(value) up to the call of instrument.write:
\* validate, encode, format.  [ok, cmd, err]
StandardParameter_set(p, value) ==
    IF ~Validate(p.vals, value)
    THEN [ok |-> FALSE, cmd |-> "", err |-> "ValueError"]
    ELSE IF p.set_mapping # NoMapping /\ ~MapHas(p.set_mapping, value)
    THEN [ok |-> FALSE, cmd |-> "", err |-> "KeyError"]
    ELSE LET enc == IF p.set_mapping # NoMapping THEN MapGet(p.set_mapping, value)
                    ELSE value
             f   == FormatCmd(p.set_cmd, enc)
         IN  IF f.ok THEN [ok |-> TRUE, cmd |-> f.s, err |-> ""]
             ELSE [ok |-> FALSE, cmd |-> "", err |-> "ValueError"]

\* StandardParameter.get() from the response of instrument.ask(get_cmd) on:
\* the get parser.  [ok, value, err]
StandardParameter_get(p, response) ==
    CASE p.get_parser = "float" ->
            LET f == ParseFloat(response)
            IN  IF f.ok THEN [ok |-> TRUE, value |-> PyFloat(f.m, f.e), err |-> ""]
                ELSE [ok |-> FALSE, value |-> PyNone, err |-> "ValueError"]
      [] p.get_parser = "valmapping" ->
            \* the raw string first, then the string read as an integer
            IF MapHas(p.get_mapping, PyStr(response))
            THEN [ok |-> TRUE, value |-> MapGet(p.get_mapping, PyStr(response)), err |-> ""]
            ELSE LET n == ParseInt(response)
                 IN  IF n.ok /\ MapHas(p.get_mapping, PyInt(n.n))
                     THEN [ok |-> TRUE, value |-> MapGet(p.get_mapping, PyInt(n.n)),
                           err |-> ""]
                     ELSE [ok |-> FALSE, value |-> PyNone, err |-> "KeyError"]
      [] OTHER -> [ok |-> TRUE, value |-> PyStr(response), err |-> ""]

\* one message on the wire: VisaInstrument.write_raw / ask_raw
Wire(via, raw) == [via |-> via, raw |-> raw]

\* the result of the last operation on a driver
Done(op, arg, sent, result, err) ==
    [op |-> op, arg |-> arg, sent |-> sent, result |-> result, err |-> err]

IdnQuery == "*IDN?"

(***************************************************************************)
(* Weinschel_8320                                                          *)
(***************************************************************************)
AttnStart == 0
AttnStopTenths == 601
AttnStep == 2

\* np.arange(start, stop, step).tolist(): floats start, start+step, ... < stop
Arange(start, stopTenths, step) ==
    {PyFloat(start + i * step, 0) :
        i \in {j \in 0..(stopTenths \div (10 * step)) + 1 :
                 10 * (start + j * step) < stopTenths}}

\* mutant: the validator steps by 1 dB
Weinschel_attenuation_step1 ==
    StandardParameter("ATTN? 1", "float", SetCmd("ATTN ALL ", "f", 2, 0),
                      Enum(Arange(AttnStart, AttnStopTenths, 1)), NoMapping)

\* mutant: the set command does not pad to two digits
Weinschel_attenuation_unpadded ==
    StandardParameter("ATTN? 1", "float", SetCmd("ATTN ALL ", "f", 0, 0),
                      Enum(Arange(AttnStart, AttnStopTenths, AttnStep)), NoMapping)

\* add_parameter('attenuation', ...)
Weinschel_attenuation ==
    StandardParameter("ATTN? 1", "float", SetCmd("ATTN ALL ", "f", 2, 0),
                      Enum(Arange(AttnStart, AttnStopTenths, AttnStep)), NoMapping)

\* The attenuator: it takes 'ATTN ALL dd' with two digits and answers
\* 'ATTN? 1' with the digits it holds.
WeinschelInstr_write(attn, raw) ==
    IF /\ StartsWith(raw, "ATTN ALL ")
       /\ Len(raw) = 11
       /\ AllDigits(DropFirst(raw, 9))
    THEN DropFirst(raw, 9)
    ELSE attn

WeinschelInstr_ask(attn, raw) ==
    CASE raw = "ATTN? 1" -> attn
      [] raw = IdnQuery  -> "Weinschel,8320,1,1.0"
      [] OTHER           -> ""

(***************************************************************************)
(* Keithley_2600                                                           *)
(***************************************************************************)
\* add_parameter('volt', ...), ('curr', ...), ('mode', ...), ('output', ...)
Keithley_volt ==
    StandardParameter("measure.v()", "float", SetCmd("source.levelv=", "f", 0, 8),
                      NoVals, NoMapping)

Keithley_curr ==
    StandardParameter("measure.i()", "float", SetCmd("source.leveli=", "f", 0, 8),
                      NoVals, NoMapping)

\* mutant: the two codes swapped
Keithley_mode_swapped ==
    StandardParameter("source.func", "none", SetCmd("source.func=", "d", 0, 0),
                      NoVals,
                      {<<PyStr("current"), PyInt(1)>>, <<PyStr("voltage"), PyInt(0)>>})

Keithley_mode ==
    StandardParameter("source.func", "none", SetCmd("source.func=", "d", 0, 0),
                      NoVals,
                      {<<PyStr("current"), PyInt(0)>>, <<PyStr("voltage"), PyInt(1)>>})

\* mutant: the raw codes are keys of the mapping too
Keithley_output_rawcodes ==
    StandardParameter("source.output", "none", SetCmd("source.output=", "d", 0, 0),
                      NoVals,
                      {<<PyStr("on"), PyInt(1)>>, <<PyStr("off"), PyInt(0)>>,
                       <<PyInt(1), PyInt(1)>>, <<PyInt(0), PyInt(0)>>})

Keithley_output ==
    StandardParameter("source.output", "none", SetCmd("source.output=", "d", 0, 0),
                      NoVals,
                      {<<PyStr("on"), PyInt(1)>>, <<PyStr("off"), PyInt(0)>>})

KeithleyParams == {"volt", "curr", "mode", "output"}

Keithley_parameters(name) ==
    CASE name = "volt"   -> Keithley_volt
      [] name = "curr"   -> Keithley_curr
      [] name = "mode"   -> Keithley_mode
      [] name = "output" -> Keithley_output

\* mutant: the query is not transformed
Keithley_ask_untransformed(channel, cmd) == "print(" \o cmd \o ")"

\* def ask(self, cmd): 'print(smu{:s}.{:s})'.format(self._channel, cmd)
Keithley_ask(channel, cmd) == "print(smu" \o channel \o "." \o cmd \o ")"

\* mutant: the channel is fixed
Keithley_write_smua(channel, cmd) == "smua." \o cmd

\* def write(self, cmd): 'smu{:s}.{:s}'.format(self._channel, cmd)
Keithley_write(channel, cmd) == "smu" \o channel \o "." \o cmd

NoIdn == [ok |-> FALSE, vendor |-> "", model |-> "", serial |-> "", firmware |-> ""]

\* mutant: a response with fewer fields gives a partial result, as in the
\* base class
Keithley_get_idn_partial(response) ==
    LET got   == Split(response, ",")
        parts == IF Len(got) < 4 THEN got \o [k \in 1..(4 - Len(got)) |-> ""] ELSE got
    IN  IF Len(parts) # 4 THEN NoIdn
        ELSE [ok       |-> TRUE,
              vendor   |-> Strip(parts[1]),
              model    |-> DropFirst(Strip(parts[2]), 6),
              serial   |-> Strip(parts[3]),
              firmware |-> Strip(parts[4])]

\* def get_idn(self), from the response to ask_raw('*IDN?') on
Keithley_get_idn(response) ==
    LET parts == Split(response, ",")
    IN  IF Len(parts) # 4 THEN NoIdn
        ELSE [ok       |-> TRUE,
              vendor   |-> Strip(parts[1]),
              model    |-> DropFirst(Strip(parts[2]), 6),
              serial   |-> Strip(parts[3]),
              firmware |-> Strip(parts[4])]

\* The source-meter: one instrument, two channels smua and smub, each with a
\* source function and an output switch.
SmuChannels == {"a", "b"}

SmuDefaults == [func |-> "1", output |-> "0"]

\* the channel a message addresses, "" when it addresses none
Smu_channel(raw) ==
    LET body == IF StartsWith(raw, "print(") THEN DropFirst(raw, 6) ELSE raw
    IN  IF StartsWith(body, "smu") /\ Len(body) >= 5 /\ CharAt(body, 5) = "."
        THEN CharAt(body, 4) ELSE ""

\* the command of a message, after the channel
Smu_command(raw) ==
    IF StartsWith(raw, "print(") /\ EndsWith(raw, ")")
    THEN SubSeq(raw, 12, Len(raw) - 1)
    ELSE DropFirst(raw, 5)

Smu_write(smu, raw) ==
    LET ch  == Smu_channel(raw)
        cmd == Smu_command(raw)
    IN  IF ch \notin SmuChannels THEN smu
        ELSE CASE StartsWith(cmd, "source.func=") /\ DropFirst(cmd, 12) \in {"0", "1"} ->
                    [smu EXCEPT ![ch].func = DropFirst(cmd, 12)]
               [] StartsWith(cmd, "source.output=") /\ DropFirst(cmd, 14) \in {"0", "1"} ->
                    [smu EXCEPT ![ch].output = DropFirst(cmd, 14)]
               [] cmd = "reset()" -> [smu EXCEPT ![ch] = SmuDefaults]
               [] OTHER -> smu

\* the answer to a query: [ok, s]; no answer (a timeout) when the message
\* addresses no channel of the instrument
Smu_ask(smu, raw, reading, idn) ==
    LET ch  == Smu_channel(raw)
        cmd == Smu_command(raw)
    IN  IF raw = IdnQuery THEN [ok |-> TRUE, s |-> idn]
        ELSE IF ch \notin SmuChannels \/ ~StartsWith(raw, "print(")
        THEN [ok |-> FALSE, s |-> ""]
        ELSE CASE cmd \in {"measure.v()", "measure.i()"} -> [ok |-> TRUE, s |-> reading]
               [] cmd = "source.func"   -> [ok |-> TRUE, s |-> smu[ch].func]
               [] cmd = "source.output" -> [ok |-> TRUE, s |-> smu[ch].output]
               [] OTHER -> [ok |-> FALSE, s |-> ""]

\* one call of write, ask or ask_raw: the command given and the message sent
KWire(via, cmd, raw) == [via |-> via, cmd |-> cmd, raw |-> raw]

\* a query together with the answer the instrument gave
KAnswered(wire, answer) ==
    [via |-> wire.via, cmd |-> wire.cmd, raw |-> wire.raw, answer |-> answer]

\* IDN = self.ask_raw('*IDN?'): the query goes out as it is
Keithley_get_idn_query == KWire("ask_raw", IdnQuery, IdnQuery)

KDone(inst, op, arg, sent, result, err, idn) ==
    [inst |-> inst, op |-> op, arg |-> arg, sent |-> sent, result |-> result,
     err |-> err, idn |-> idn]

(***************************************************************************)
(* AlazarTech_ATS                                                          *)
(***************************************************************************)
Alazar_dll_path == "C:\\WINDOWS\\System32\\ATSApi"

Alazar_clock_source == "clock_source"

\* Instrument.__init__ has run: the instance has its IDN parameter only
AlazarFresh ==
    [op |-> "none", system_id |-> 0, board_id |-> 0, dll |-> "", handle |-> 0,
     buffer_list |-> "unset", parameters |-> {}, err |-> ""]

\* mutant: the handle is tested for a negative value, not for zero
AlazarTech_ATS_init_negative(system_id, board_id, dll_path, handle) ==
    LET loaded == IF PyTruthy(dll_path) THEN dll_path.s ELSE Alazar_dll_path
        base   == [op |-> "init", system_id |-> system_id, board_id |-> board_id,
                   dll |-> loaded, handle |-> handle,
                   buffer_list |-> "unset", parameters |-> {"IDN"}, err |-> ""]
    IN  IF handle < 0
        THEN [base EXCEPT !.err = "AlazarTech_ATS not found at system "
                                  \o IntStr(system_id) \o ", board " \o IntStr(board_id)]
        ELSE [base EXCEPT !.buffer_list = "empty",
                          !.parameters = @ \cup {Alazar_clock_source}]

\* AlazarTech_ATS.__init__(name, system_id, board_id, dll_path), where
\* handle is what AlazarGetBoardBySystemID(system_id, board_id) returns
AlazarTech_ATS_init(system_id, board_id, dll_path, handle) ==
    LET loaded == IF PyTruthy(dll_path) THEN dll_path.s ELSE Alazar_dll_path
        base   == [op |-> "init", system_id |-> system_id, board_id |-> board_id,
                   dll |-> loaded, handle |-> handle,
                   buffer_list |-> "unset", parameters |-> {"IDN"}, err |-> ""]
    IN  IF ~PyTruthy(PyInt(handle))
        THEN [base EXCEPT !.err = "AlazarTech_ATS not found at system "
                                  \o IntStr(system_id) \o ", board " \o IntStr(board_id)]
        ELSE [base EXCEPT !.buffer_list = "empty",
                          !.parameters = @ \cup {Alazar_clock_source}]

(***************************************************************************)
(* Ithaco_1211 and CurrentParameter                                        *)
(***************************************************************************)
\* ManualParameter: the value lives in software
ManualParameter(initial_value, vals) == [initial_value |-> initial_value, vals |-> vals]

\* ManualParameter.set(value): [ok, value]; the latest value is replaced
\* when the validator accepts the new one
ManualParameter_set(p, latest, value) ==
    IF Validate(p.vals, value) THEN [ok |-> TRUE, value |-> value]
    ELSE [ok |-> FALSE, value |-> latest]

\* ManualParameter.get()
ManualParameter_get(latest) == latest

Decades(lo, hi) == {PyFloat(1, k) : k \in lo..hi}

IthacoParams == {"sens", "invert", "sens_factor", "suppression", "risetime"}

\* mutant: the initial values of sens and suppression exchanged
Ithaco_parameters_exchanged(name) ==
    CASE name = "sens" ->
            ManualParameter(PyFloat(1, -7), Enum(Decades(-11, -3)))
      [] name = "invert" ->
            ManualParameter(PyBool(TRUE), Bool)
      [] name = "sens_factor" ->
            ManualParameter(PyInt(1), Enum({PyFloat(1, -1), PyInt(1), PyInt(10)}))
      [] name = "suppression" ->
            ManualParameter(PyFloat(1, -8), Enum(Decades(-10, -3)))
      [] name = "risetime" ->
            ManualParameter(PyFloat(3, -1),
                            Enum({PyFloat(1, -2), PyFloat(3, -2), PyFloat(1, -1),
                                  PyFloat(3, -1), PyInt(1), PyInt(3), PyInt(10),
                                  PyInt(30), PyInt(100), PyInt(300), PyInt(1000)}))

\* mutant: the validator of sens reaches one decade further down
Ithaco_parameters_wide(name) ==
    CASE name = "sens" ->
            ManualParameter(PyFloat(1, -8), Enum(Decades(-12, -3)))
      [] name = "invert" ->
            ManualParameter(PyBool(TRUE), Bool)
      [] name = "sens_factor" ->
            ManualParameter(PyInt(1), Enum({PyFloat(1, -1), PyInt(1), PyInt(10)}))
      [] name = "suppression" ->
            ManualParameter(PyFloat(1, -7), Enum(Decades(-10, -3)))
      [] name = "risetime" ->
            ManualParameter(PyFloat(3, -1),
                            Enum({PyFloat(1, -2), PyFloat(3, -2), PyFloat(1, -1),
                                  PyFloat(3, -1), PyInt(1), PyInt(3), PyInt(10),
                                  PyInt(30), PyInt(100), PyInt(300), PyInt(1000)}))

\* the add_parameter calls of Ithaco_1211.__init__
Ithaco_parameters(name) ==
    CASE name = "sens" ->
            ManualParameter(PyFloat(1, -8), Enum(Decades(-11, -3)))
      [] name = "invert" ->
            ManualParameter(PyBool(TRUE), Bool)
      [] name = "sens_factor" ->
            ManualParameter(PyInt(1), Enum({PyFloat(1, -1), PyInt(1), PyInt(10)}))
      [] name = "suppression" ->
            ManualParameter(PyFloat(1, -7), Enum(Decades(-10, -3)))
      [] name = "risetime" ->
            ManualParameter(PyFloat(3, -1),
                            Enum({PyFloat(1, -2), PyFloat(3, -2), PyFloat(1, -1),
                                  PyFloat(3, -1), PyInt(1), PyInt(3), PyInt(10),
                                  PyInt(30), PyInt(100), PyInt(300), PyInt(1000)}))

\* mutant: get_idn asks the instrument, as the base class does
Ithaco_get_idn_asks ==
    [sent |-> <<Wire("ask", IdnQuery)>>,
     idn  |-> [ok |-> TRUE, vendor |-> "Ithaco (DL Instruments)", model |-> "1211",
               serial |-> "", firmware |-> ""]]

\* Ithaco_1211.get_idn(): [sent, idn]; None is written ""
Ithaco_get_idn ==
    [sent |-> <<>>,
     idn  |-> [ok |-> TRUE, vendor |-> "Ithaco (DL Instruments)", model |-> "1211",
               serial |-> "", firmware |-> ""]]

\* mutant: the sign is changed when invert is false
CurrentParameter_get_sign(readings, sens, sens_factor, invert) ==
    LET volt    == readings[1]
        current == PyMul(PyMul(sens, sens_factor), volt)
    IN  [reads   |-> 1,
         volt    |-> volt,
         current |-> IF ~PyTruthy(invert) THEN PyMul(current, PyInt(-1)) ELSE current]

\* CurrentParameter.get(), where readings are the values successive gets of
\* the measured parameter return: [reads, volt, current]
CurrentParameter_get(readings, sens, sens_factor, invert) ==
    LET volt    == readings[1]
        current == PyMul(PyMul(sens, sens_factor), volt)
    IN  [reads   |-> 1,
         volt    |-> volt,
         current |-> IF PyTruthy(invert) THEN PyMul(current, PyInt(-1)) ELSE current]

\* one get of the measured parameter and the value it returned
MWire(value) == [via |-> "measured_param.get", value |-> value]

IDone(op, par, arg, sent, result, current, err) ==
    [op |-> op, par |-> par, arg |-> arg, sent |-> sent, result |-> result,
     current |-> current, err |-> err]

(***************************************************************************)
(* State                                                                   *)
(***************************************************************************)
VARIABLES
    w_built,    \* Weinschel_8320: the constructor has returned
    w_attn,     \* the attenuator: the two digits it holds
    w_latest,   \* the value saved by the last get or set of 'attenuation'
    w_last,     \* the last operation on the Weinschel_8320 and its outcome
    k_chan,     \* Keithley_2600 instance -> its _channel, "none" before __init__
    k_smu,      \* the source-meter: channel -> [func, output]
    k_last,     \* the last operation on a Keithley_2600 and its outcome
    a_inst,     \* the AlazarTech_ATS instance under construction or constructed
    i_built,    \* Ithaco_1211: the constructor has returned
    i_val,      \* Ithaco_1211: parameter -> its latest value
    i_acc,      \* parameter -> the value of its last accepted set, None if none
    i_last      \* the last operation on the Ithaco_1211 or the CurrentParameter

w_vars == <<w_built, w_attn, w_latest, w_last>>
k_vars == <<k_chan, k_smu, k_last>>
a_vars == <<a_inst>>
i_vars == <<i_built, i_val, i_acc, i_last>>

vars == <<w_vars, k_vars, a_vars, i_vars>>

Idle == Done("none", PyNone, <<>>, PyNone, "")

(***************************************************************************)
(* Weinschel_8320: operations                                              *)
(***************************************************************************)
MaxAttnInput == 62

\* values a caller may pass to attenuation.set
AttnInputs ==
    {PyInt(n) : n \in -2..MaxAttnInput}
    \cup {PyFloat(2 * n, 0) : n \in -1..(MaxAttnInput \div 2)}
    \cup {PyFloat(10, -1), PyFloat(25, -1), PyFloat(405, -1), PyFloat(601, -1),
          PyBool(TRUE), PyBool(FALSE), PyStr("40"), PyNone}

\* what the attenuator holds at power-on
AttnPowerOn == "00"

W_Init ==
    /\ w_built = FALSE
    /\ w_attn = AttnPowerOn
    /\ w_latest = PyNone
    /\ w_last = Idle

\* Weinschel_8320(name, address): add_parameter, then connect_message()
Weinschel_init ==
    /\ ~w_built
    /\ w_built' = TRUE
    /\ w_last' = Done("init", PyNone, <<Wire("ask", IdnQuery)>>,
                      PyStr(WeinschelInstr_ask(w_attn, IdnQuery)), "")
    /\ UNCHANGED <<w_attn, w_latest>>
    /\ UNCHANGED <<k_vars, a_vars, i_vars>>

\* weinschel.attenuation.set(value)
Weinschel_attenuation_set(value) ==
    LET r == StandardParameter_set(Weinschel_attenuation, value)
    IN  /\ w_built
        /\ IF r.ok
           THEN /\ w_attn' = WeinschelInstr_write(w_attn, r.cmd)
                /\ w_latest' = value
                /\ w_last' = Done("set", value, <<Wire("write", r.cmd)>>, PyNone, "")
           ELSE /\ w_last' = Done("set", value, <<>>, PyNone, r.err)
                /\ UNCHANGED <<w_attn, w_latest>>
        /\ UNCHANGED w_built
        /\ UNCHANGED <<k_vars, a_vars, i_vars>>

\* weinschel.attenuation.get()
Weinschel_attenuation_get ==
    LET cmd  == Weinschel_attenuation.get_cmd
        resp == WeinschelInstr_ask(w_attn, cmd)
        r    == StandardParameter_get(Weinschel_attenuation, resp)
    IN  /\ w_built
        /\ w_last' = Done("get", PyNone, <<Wire("ask", cmd)>>, r.value, r.err)
        /\ w_latest' = IF r.ok THEN r.value ELSE w_latest
        /\ UNCHANGED <<w_built, w_attn>>
        /\ UNCHANGED <<k_vars, a_vars, i_vars>>

(***************************************************************************)
(* Keithley_2600: operations                                               *)
(***************************************************************************)
KInstances == {"k1", "k2"}

\* the channel argument of the constructor
ChannelInputs == {"a", "b", "c"}

\* what the instrument may answer to '*IDN?'
IdnResponses ==
    {"Keithley Instruments Inc., Model 2614B, 4083825, 3.0.1",
     "Keithley Instruments Inc.,  Model 2636A , 1234 ,2.0\n",
     "Keithley Instruments Inc., Model 2614B, 4083825",
     "Keithley, Instruments Inc., Model 2614B, 4083825, 3.0.1"}

\* what the instrument may answer to a measurement
Readings == {"1.50000e+00", "-2.00000e-03"}

\* values a caller may pass to a set
KeithleyInputs(name) ==
    CASE name \in {"volt", "curr"} -> {PyFloat(15, -1), PyInt(-2), PyStr("1.5")}
      [] name = "mode"   -> {PyStr("current"), PyStr("voltage"), PyInt(0), PyInt(1),
                             PyStr("on")}
      [] name = "output" -> {PyStr("on"), PyStr("off"), PyInt(0), PyInt(1),
                             PyBool(TRUE)}

K_Init ==
    /\ k_chan = [i \in KInstances |-> "none"]
    /\ k_smu = [ch \in SmuChannels |-> SmuDefaults]
    /\ k_last = KDone("none", "none", PyNone, <<>>, PyNone, "", NoIdn)

\* Keithley_2600(name, address, channel): the parameters are added, then
\* connect_message() gets the IDN parameter, which calls get_idn
Keithley_init(i, channel, idn) ==
    LET a == Smu_ask(k_smu, IdnQuery, "", idn)
        r == Keithley_get_idn(a.s)
    IN  /\ k_chan[i] = "none"
        /\ k_chan' = IF r.ok THEN [k_chan EXCEPT ![i] = channel] ELSE k_chan
        /\ k_last' = KDone(i, "init", PyStr(channel),
                           <<KAnswered(Keithley_get_idn_query, a.s)>>, PyNone,
                           IF r.ok THEN "" ELSE "ValueError", r)
        /\ UNCHANGED k_smu
        /\ UNCHANGED <<w_vars, a_vars, i_vars>>

\* instance.get_idn()
Keithley_IDN(i, idn) ==
    LET a == Smu_ask(k_smu, IdnQuery, "", idn)
        r == Keithley_get_idn(a.s)
    IN  /\ k_chan[i] # "none"
        /\ k_last' = KDone(i, "get_idn", PyNone,
                           <<KAnswered(Keithley_get_idn_query, a.s)>>, PyNone,
                           IF r.ok THEN "" ELSE "ValueError", r)
        /\ UNCHANGED <<k_chan, k_smu>>
        /\ UNCHANGED <<w_vars, a_vars, i_vars>>

\* instance.<name>.set(value): StandardParameter.set through self.write
Keithley_set(i, name, value) ==
    LET r   == StandardParameter_set(Keithley_parameters(name), value)
        raw == Keithley_write(k_chan[i], r.cmd)
    IN  /\ k_chan[i] # "none"
        /\ IF r.ok
           THEN /\ k_smu' = Smu_write(k_smu, raw)
                /\ k_last' = KDone(i, name \o ".set", value,
                                   <<KWire("write", r.cmd, raw)>>, PyNone, "", NoIdn)
           ELSE /\ k_last' = KDone(i, name \o ".set", value, <<>>, PyNone, r.err, NoIdn)
                /\ UNCHANGED k_smu
        /\ UNCHANGED k_chan
        /\ UNCHANGED <<w_vars, a_vars, i_vars>>

\* instance.<name>.get(): StandardParameter.get through self.ask
Keithley_get(i, name, reading) ==
    LET cmd == Keithley_parameters(name).get_cmd
        raw == Keithley_ask(k_chan[i], cmd)
        a   == Smu_ask(k_smu, raw, reading, "")
        r   == StandardParameter_get(Keithley_parameters(name), a.s)
    IN  /\ k_chan[i] # "none"
        /\ k_last' = KDone(i, name \o ".get", PyNone, <<KWire("ask", cmd, raw)>>,
                           IF a.ok THEN r.value ELSE PyNone,
                           IF a.ok THEN r.err ELSE "VisaIOError", NoIdn)
        /\ UNCHANGED <<k_chan, k_smu>>
        /\ UNCHANGED <<w_vars, a_vars, i_vars>>

\* def reset(self): self.write('reset()')
Keithley_reset(i) ==
    LET raw == Keithley_write(k_chan[i], "reset()")
    IN  /\ k_chan[i] # "none"
        /\ k_smu' = Smu_write(k_smu, raw)
        /\ k_last' = KDone(i, "reset", PyNone, <<KWire("write", "reset()", raw)>>,
                           PyNone, "", NoIdn)
        /\ UNCHANGED k_chan
        /\ UNCHANGED <<w_vars, a_vars, i_vars>>

(***************************************************************************)
(* AlazarTech_ATS: operations                                              *)
(***************************************************************************)
MaxSystemId == 4
MaxBoardId == 4
MaxHandle == 3

\* the dll_path argument of the constructor
DllPathInputs == {PyNone, PyStr("D:\\ATSApi")}

A_Init == a_inst = AlazarFresh

\* AlazarTech_ATS(name, system_id, board_id, dll_path)
AlazarTech_ATS(system_id, board_id, dll_path, handle) ==
    /\ a_inst' = AlazarTech_ATS_init(system_id, board_id, dll_path, handle)
    /\ UNCHANGED <<w_vars, k_vars, i_vars>>

(***************************************************************************)
(* Ithaco_1211 and CurrentParameter: operations                            *)
(***************************************************************************)
\* values a caller may pass to a set
IthacoInputs(name) ==
    CASE name = "sens"        -> {PyFloat(1, -3), PyFloat(1, -12), PyStr("1e-8")}
      [] name = "invert"      -> {PyBool(FALSE), PyBool(TRUE), PyInt(0)}
      [] name = "sens_factor" -> {PyFloat(1, -1), PyInt(10), PyBool(TRUE), PyInt(5)}
      [] name = "suppression" -> {PyFloat(1, -10), PyFloat(1, -11)}
      [] name = "risetime"    -> {PyInt(1000), PyFloat(5, -1)}

\* what the measured voltage parameter may return
VoltReadings == {PyFloat(15, -1), PyFloat(-2, -3), PyFloat(0, 0)}

I_Init ==
    /\ i_built = FALSE
    /\ i_val = [p \in IthacoParams |-> PyNone]
    /\ i_acc = [p \in IthacoParams |-> PyNone]
    /\ i_last = IDone("none", "", PyNone, <<>>, PyNone, PyNone, "")

\* Ithaco_1211(name): each ManualParameter validates and saves its
\* initial_value
Ithaco_init ==
    LET ok == \A p \in IthacoParams :
                 Validate(Ithaco_parameters(p).vals, Ithaco_parameters(p).initial_value)
    IN  /\ ~i_built
        /\ i_built' = ok
        /\ i_val' = IF ok THEN [p \in IthacoParams |-> Ithaco_parameters(p).initial_value]
                    ELSE i_val
        /\ i_last' = IDone("init", "", PyNone, <<>>, PyNone, PyNone,
                           IF ok THEN "" ELSE "ValueError")
        /\ UNCHANGED i_acc
        /\ UNCHANGED <<w_vars, k_vars, a_vars>>

\* ithaco.<name>.set(value)
Ithaco_set(name, value) ==
    LET r == ManualParameter_set(Ithaco_parameters(name), i_val[name], value)
    IN  /\ i_built
        /\ i_val' = [i_val EXCEPT ![name] = r.value]
        /\ i_acc' = IF r.ok THEN [i_acc EXCEPT ![name] = value] ELSE i_acc
        /\ i_last' = IDone("set", name, value, <<>>, PyNone, PyNone,
                           IF r.ok THEN "" ELSE "ValueError")
        /\ UNCHANGED i_built
        /\ UNCHANGED <<w_vars, k_vars, a_vars>>

\* ithaco.<name>.get()
Ithaco_get(name) ==
    /\ i_built
    /\ i_last' = IDone("get", name, PyNone, <<>>, ManualParameter_get(i_val[name]),
                       PyNone, "")
    /\ UNCHANGED <<i_built, i_val, i_acc>>
    /\ UNCHANGED <<w_vars, k_vars, a_vars>>

\* ithaco.get_idn()
Ithaco_IDN ==
    /\ i_built
    /\ i_last' = IDone("get_idn", "", PyNone, Ithaco_get_idn.sent,
                       PyStr(Ithaco_get_idn.idn.model), PyNone, "")
    /\ UNCHANGED <<i_built, i_val, i_acc>>
    /\ UNCHANGED <<w_vars, k_vars, a_vars>>

\* CurrentParameter(measured_param, ithaco).get(); _save_val keeps the
\* value returned, the result of the operation
CurrentParameter(readings) ==
    LET r == CurrentParameter_get(readings, ManualParameter_get(i_val["sens"]),
                                  ManualParameter_get(i_val["sens_factor"]),
                                  ManualParameter_get(i_val["invert"]))
    IN  /\ i_built
        /\ i_last' = IDone("curr.get", "", PyNone,
                           [k \in 1..r.reads |-> MWire(readings[k])],
                           r.volt, r.current, "")
        /\ UNCHANGED <<i_built, i_val, i_acc>>
        /\ UNCHANGED <<w_vars, k_vars, a_vars>>

(***************************************************************************)
(* Specifications: the drivers are independent programs, each with its own *)
(* next-state relation; Spec runs them side by side.                       *)
(***************************************************************************)
Init == W_Init /\ K_Init /\ A_Init /\ I_Init

W_Next ==
    \/ Weinschel_init
    \/ \E value \in AttnInputs : Weinschel_attenuation_set(value)
    \/ Weinschel_attenuation_get

K_Next ==
    \/ \E i \in KInstances, channel \in ChannelInputs, idn \in IdnResponses :
            Keithley_init(i, channel, idn)
    \/ \E i \in KInstances, idn \in IdnResponses : Keithley_IDN(i, idn)
    \/ \E i \in KInstances, name \in KeithleyParams :
            \E value \in KeithleyInputs(name) : Keithley_set(i, name, value)
    \/ \E i \in KInstances, name \in KeithleyParams, reading \in Readings :
            Keithley_get(i, name, reading)
    \/ \E i \in KInstances : Keithley_reset(i)

A_Next ==
    \E system_id \in 1..MaxSystemId, board_id \in 1..MaxBoardId,
       dll_path \in DllPathInputs, handle \in -1..MaxHandle :
          AlazarTech_ATS(system_id, board_id, dll_path, handle)

I_Next ==
    \/ Ithaco_init
    \/ \E name \in IthacoParams : \E value \in IthacoInputs(name) : Ithaco_set(name, value)
    \/ \E name \in IthacoParams : Ithaco_get(name)
    \/ Ithaco_IDN
    \/ \E readings \in [1..2 -> VoltReadings] : CurrentParameter(readings)

Next == W_Next \/ K_Next \/ A_Next \/ I_Next

Spec == Init /\ [][Next]_vars

SpecW == Init /\ [][W_Next]_vars

SpecK == Init /\ [][K_Next]_vars

SpecA == Init /\ [][A_Next]_vars

SpecI == Init /\ [][I_Next]_vars

(***************************************************************************)
(* Claims                                                                  *)
(***************************************************************************)
\* C1: CurrentParameter.get() returns (volt, current): volt is the value the
\* measured parameter returned at that call, and current is
\* sens * sens_factor * volt for the settings in force, negated exactly when
\* invert is true.
C1_CurrentFromSettings ==
    i_last.op = "curr.get" =>
        LET s    == i_val["sens"]
            f    == i_val["sens_factor"]
            v    == i_last.result
            sign == IF i_val["invert"] = PyBool(TRUE) THEN -1 ELSE 1
            want == Norm(sign * s.m * f.m * v.m, s.e + f.e + v.e)
        IN  /\ i_last.err = ""
            /\ v = i_last.sent[1].value
            /\ IsNumber(i_last.current)
            /\ i_last.current.m = want.m
            /\ i_last.current.e = want.e

C1_Witness ==
    /\ i_last.op = "curr.get"
    /\ i_val["sens"] = PyFloat(1, -3)
    /\ i_val["sens_factor"] = PyInt(10)
    /\ i_val["invert"] = PyBool(FALSE)
    /\ i_last.result = PyFloat(15, -1)
    /\ i_last.current = PyFloat(15, -3)

\* what a Keithley_2600 operation sends through write and ask
K_Sent(via) == {k_last.sent[n] : n \in {j \in 1..Len(k_last.sent) : k_last.sent[j].via = via}}

K_ParamOps == {name \o ".set" : name \in KeithleyParams}
              \cup {name \o ".get" : name \in KeithleyParams} \cup {"reset"}

\* C2: every command an instance with channel c writes is 'smu' + c + '.' +
\* cmd and every query it asks is 'print(smu' + c + '.' + cmd + ')'; with two
\* instances on channels 'a' and 'b' of one instrument, no get, set or reset
\* of one instance sends a message that addresses the other's channel.
C2_Prefixed ==
    LET c == k_chan[k_last.inst]
    IN  k_last.op \in K_ParamOps =>
          /\ \A m \in K_Sent("write") : m.raw = "smu" \o c \o "." \o m.cmd
          /\ \A m \in K_Sent("ask") : m.raw = "print(smu" \o c \o "." \o m.cmd \o ")"
          /\ \A j \in KInstances :
                (c \in SmuChannels /\ k_chan[j] \in SmuChannels /\ k_chan[j] # c) =>
                    \A n \in 1..Len(k_last.sent) :
                        Smu_channel(k_last.sent[n].raw) # k_chan[j]

C2_OtherChannelUntouched ==
    \A ch \in SmuChannels :
        (k_last'.op \in K_ParamOps /\ k_chan'[k_last'.inst] # ch) =>
            k_smu'[ch] = k_smu[ch]

C2_ChannelIsolation == [](C2_Prefixed) /\ [][C2_OtherChannelUntouched]_vars

C2_Witness ==
    /\ k_chan["k1"] = "a" /\ k_chan["k2"] = "b"
    /\ k_smu["a"] = [func |-> "0", output |-> "1"]
    /\ k_last.inst = "k2" /\ k_last.op = "reset"

\* the codes of the two val_mappings, as the notebook gives them
C3_Code(op, value) ==
    CASE op = "mode"   /\ value = "current" -> "0"
      [] op = "mode"   /\ value = "voltage" -> "1"
      [] op = "output" /\ value = "on"      -> "1"
      [] op = "output" /\ value = "off"     -> "0"
      [] OTHER -> "?"

C3_Keys(name) == IF name = "mode" THEN {"current", "voltage"} ELSE {"on", "off"}

C3_Cmd(name) == IF name = "mode" THEN "source.func" ELSE "source.output"

C3_Held(smu, name, ch) == IF name = "mode" THEN smu[ch].func ELSE smu[ch].output

\* a set of a mapped value sends its code; a get decodes the code the
\* instrument holds
C3_EncodeDecode ==
    \A name \in {"mode", "output"} :
        /\ (k_last.op = name \o ".set" /\ k_last.arg.t = "str"
              /\ k_last.arg.s \in C3_Keys(name)) =>
                /\ Len(k_last.sent) = 1
                /\ k_last.sent[1].cmd = C3_Cmd(name) \o "=" \o C3_Code(name, k_last.arg.s)
        /\ (k_last.op = name \o ".get" /\ k_chan[k_last.inst] \in SmuChannels) =>
                /\ k_last.err = ""
                /\ k_last.result.t = "str"
                /\ C3_Code(name, k_last.result.s)
                      = C3_Held(k_smu, name, k_chan[k_last.inst])

\* set(v) then get returns v; get then set of what it returned sends the
\* code the instrument held
C3_RoundTrip ==
    \A name \in {"mode", "output"} :
        /\ (/\ k_last.op = name \o ".set" /\ k_last.err = ""
            /\ k_chan[k_last.inst] \in SmuChannels
            /\ k_last'.op = name \o ".get" /\ k_last'.inst = k_last.inst) =>
                k_last'.err = "" /\ k_last'.result = k_last.arg
        /\ (/\ k_last.op = name \o ".get" /\ k_last.err = ""
            /\ k_last'.op = name \o ".set" /\ k_last'.inst = k_last.inst
            /\ k_last'.arg = k_last.result) =>
                /\ Len(k_last'.sent) = 1
                /\ k_last'.sent[1].cmd
                      = C3_Cmd(name) \o "=" \o C3_Held(k_smu, name, k_chan[k_last.inst])

\* C3: the val_mapping of 'mode' ({'current': 0, 'voltage': 1}) and 'output'
\* ({'on': 1, 'off': 0}) is bidirectional: a set sends the code of the value,
\* a get decodes the instrument's code to the value, a set(v) followed by a
\* get returns v, and decoding followed by encoding gives the code back.
C3_Bidirectional == [](C3_EncodeDecode) /\ [][C3_RoundTrip]_vars

C3_Witness ==
    /\ k_last.op = "mode.get"
    /\ k_last.result = PyStr("current")
    /\ k_chan[k_last.inst] = "b"

\* C4: the keys of a val_mapping are the only valid set values: 'mode'
\* accepts 'current' and 'voltage' and 'output' accepts 'on' and 'off'; a set
\* with any other value, a raw code 0 or 1 included, is rejected and sends
\* nothing.
C4_OnlyKeysAccepted ==
    \A name \in {"mode", "output"} :
        k_last.op = name \o ".set" =>
            IF k_last.arg.t = "str" /\ k_last.arg.s \in C3_Keys(name)
            THEN k_last.err = "" /\ Len(k_last.sent) = 1
            ELSE k_last.err # "" /\ k_last.sent = <<>>

C4_Witness ==
    /\ k_last.op = "output.set"
    /\ k_last.arg = PyInt(1)
    /\ k_last.err # ""

\* the even numbers 0, 2, ..., 60, whatever Python type carries them
C5_Even(x) ==
    /\ IsNumber(x)
    /\ x.e >= 0
    /\ \E n \in 0..30 : x.m * Pow10(x.e) = 2 * n

\* C5: a set of 'attenuation' to a value other than 0, 2, ..., 60 is an error
\* and sends no 'ATTN ALL' command; every value 0, 2, ..., 60, given as an
\* integer or as a float, is accepted.
C5_AttenuationValidated ==
    w_last.op = "set" =>
        IF C5_Even(w_last.arg)
        THEN w_last.err = ""
        ELSE /\ w_last.err # ""
             /\ \A n \in 1..Len(w_last.sent) : ~StartsWith(w_last.sent[n].raw, "ATTN ALL")

C5_Witness ==
    /\ w_last.op = "set"
    /\ w_last.arg = PyInt(61)
    /\ w_last.err # ""
    /\ w_attn = "60"

C6_TwoDigits(n) == Digits[(n \div 10) + 1] \o Digits[(n % 10) + 1]

\* C6: a set of an accepted value v sends exactly one command, 'ATTN ALL '
\* followed by v as an integer zero-padded to two digits, for an integer and
\* for a float v; a get sends exactly 'ATTN? 1' and returns the response
\* converted to a number.
C6_AttenuationCommands ==
    /\ (w_last.op = "set" /\ C5_Even(w_last.arg)) =>
            w_last.sent = <<Wire("write",
                "ATTN ALL " \o C6_TwoDigits(w_last.arg.m * Pow10(w_last.arg.e)))>>
    /\ w_last.op = "get" =>
            /\ w_last.sent = <<Wire("ask", "ATTN? 1")>>
            /\ w_last.err = ""
            /\ w_last.result.t = "float"
            /\ \E n \in 0..99 :
                  C6_TwoDigits(n) = w_attn /\ PyEq(w_last.result, PyInt(n))

C6_Witness ==
    /\ w_last.op = "get"
    /\ w_attn = "04"
    /\ w_last.result = PyFloat(4, 0)

C8_Declared(name) ==
    CASE name = "sens"        -> PyFloat(1, -8)
      [] name = "invert"      -> PyBool(TRUE)
      [] name = "sens_factor" -> PyInt(1)
      [] name = "suppression" -> PyFloat(1, -7)
      [] name = "risetime"    -> PyFloat(3, -1)

C8_GetReturnsLatest ==
    i_last.op = "get" =>
        i_last.result = IF i_acc[i_last.par] = PyNone THEN C8_Declared(i_last.par)
                        ELSE i_acc[i_last.par]

C8_SetIsLocal ==
    \A p \in IthacoParams :
        (i_last'.op = "set" /\ i_last'.par # p) => i_val'[p] = i_val[p]

\* C8: a get of a ManualParameter of Ithaco_1211 returns the value of the
\* most recent accepted set on it, or its declared initial_value (1e-8, True,
\* 1, 1e-7, 0.3) if none was accepted yet, and a set on one parameter never
\* changes the value of another.
C8_ManualValues == [](C8_GetReturnsLatest) /\ [][C8_SetIsLocal]_vars

C8_Witness ==
    /\ i_last.op = "get" /\ i_last.par = "sens_factor"
    /\ i_last.result = PyInt(10)
    /\ i_acc["sens"] = PyFloat(1, -3)
    /\ i_acc["suppression"] = PyNone

\* C9: Ithaco_1211 does not talk to the instrument: construction, gets, sets
\* and get_idn send nothing, and CurrentParameter.get reads the hardware
\* exactly once, by one get of the measured voltage parameter.
C9_NoHardwareTraffic ==
    /\ i_last.op \in {"init", "set", "get", "get_idn"} => i_last.sent = <<>>
    /\ i_last.op = "curr.get" =>
          /\ Len(i_last.sent) = 1
          /\ i_last.sent[1].via = "measured_param.get"

C9_Witness ==
    /\ i_last.op = "curr.get"
    /\ i_acc["invert"] = PyBool(FALSE)
    /\ Len(i_last.sent) = 1

C10_Addresses(channels) ==
    /\ \A m \in K_Sent("write") :
          \E ch \in channels : StartsWith(m.raw, "smu" \o ch \o ".")
    /\ \A m \in K_Sent("ask") :
          \E ch \in channels : m.raw = "print(smu" \o ch \o "." \o m.cmd \o ")"

\* C10 as claimed: for every instance the constructor accepts, every command
\* written begins with 'smua.' or 'smub.' and every query asked is
\* 'print(smua.' or 'print(smub.' followed by the command.
C10_AnyInstanceAddressesAorB == C10_Addresses({"a", "b"})

\* C10 as amended: the same of every instance constructed with channel 'a'
\* or 'b'; the constructor accepts any channel.
C10_InstanceOfAorBAddressesAorB ==
    (k_last.inst \in KInstances /\ k_chan[k_last.inst] \in {"a", "b"}) =>
        C10_Addresses({"a", "b"})

C10_Witness ==
    /\ k_last.op = "volt.get"
    /\ k_chan[k_last.inst] = "b"
    /\ k_last.err = ""
    /\ k_last.result = PyFloat(15, -1)

\* the number of occurrences of character c in s
RECURSIVE C11_Count(_, _)
C11_Count(s, c) ==
    IF Len(s) = 0 THEN 0
    ELSE (IF CharAt(s, 1) = c THEN 1 ELSE 0) + C11_Count(DropFirst(s, 1), c)

\* the fields of an answer with four of them, found by the commas
C11_Field(s, n) ==
    LET c1 == IndexOf(s, ",", 1)
        c2 == IndexOf(s, ",", c1 + 1)
        c3 == IndexOf(s, ",", c2 + 1)
    IN  CASE n = 1 -> SubSeq(s, 1, c1 - 1)
          [] n = 2 -> SubSeq(s, c1 + 1, c2 - 1)
          [] n = 3 -> SubSeq(s, c2 + 1, c3 - 1)
          [] n = 4 -> SubSeq(s, c3 + 1, Len(s))

\* C11: get_idn sends '*IDN?' through ask_raw, without the
\* 'print(smu<channel>.' prefix of ask; from an answer of exactly four
\* comma-separated fields it returns vendor, model, serial and firmware, each
\* stripped of surrounding whitespace and the stripped model without its
\* first six characters; an answer with another number of fields is an error,
\* not a partial result.
C11_GetIdn ==
    k_last.op \in {"get_idn", "init"} =>
        LET q      == k_last.sent[1]
            answer == q.answer
            model  == Strip(C11_Field(answer, 2))
        IN  /\ Len(k_last.sent) = 1
            /\ q.via = "ask_raw"
            /\ q.raw = "*IDN?"
            /\ IF C11_Count(answer, ",") = 3
               THEN /\ k_last.err = ""
                    /\ k_last.idn.ok
                    /\ k_last.idn.vendor = Strip(C11_Field(answer, 1))
                    /\ k_last.idn.model = DropFirst(model, 6)
                    /\ Len(k_last.idn.model) = (IF Len(model) > 6 THEN Len(model) - 6 ELSE 0)
                    /\ k_last.idn.serial = Strip(C11_Field(answer, 3))
                    /\ k_last.idn.firmware = Strip(C11_Field(answer, 4))
                    /\ answer = "Keithley Instruments Inc.,  Model 2636A , 1234 ,2.0\n" =>
                          k_last.idn = [ok |-> TRUE, vendor |-> "Keithley Instruments Inc.",
                                        model |-> "2636A", serial |-> "1234",
                                        firmware |-> "2.0"]
               ELSE /\ k_last.err # ""
                    /\ k_last.idn = NoIdn

C11_Witness ==
    /\ k_last.op = "get_idn"
    /\ k_chan[k_last.inst] = "a"
    /\ k_last.err = ""
    /\ k_last.idn.model = "2614B"
    /\ k_last.idn.firmware = "3.0.1"

\* the validator sets the notebook declares, as numbers
C12_Member(name, x) ==
    CASE name = "sens"        -> IsNumber(x) /\ x.m = 1 /\ x.e \in -11..-3
      [] name = "invert"      -> x.t = "bool"
      [] name = "sens_factor" -> IsNumber(x) /\ x.m = 1 /\ x.e \in -1..1
      [] name = "suppression" -> IsNumber(x) /\ x.m = 1 /\ x.e \in -10..-3
      [] name = "risetime"    -> /\ IsNumber(x)
                                 /\ \/ x.m \in {1, 3} /\ x.e \in -2..2
                                    \/ x.m = 1 /\ x.e = 3

C12_ValuesValid ==
    /\ i_built => \A p \in IthacoParams : C12_Member(p, i_val[p])
    /\ (i_last.op = "set" /\ ~C12_Member(i_last.par, i_last.arg)) => i_last.err # ""

C12_RejectedSetKeeps ==
    (i_last'.op = "set" /\ i_last'.err # "") => i_val' = i_val

\* C12: in every reachable state of an Ithaco_1211, after any accepted and
\* rejected sets, the value of each manual parameter is a member of its
\* validator set (the initial values included), and a set with a value
\* outside the set is rejected and leaves the stored value unchanged.
C12_ValuesStayValid == [](C12_ValuesValid) /\ [][C12_RejectedSetKeeps]_vars

C12_Witness ==
    /\ i_last.op = "set" /\ i_last.par = "sens"
    /\ i_last.arg = PyFloat(1, -12)
    /\ i_last.err # ""
    /\ i_val["sens"] = PyFloat(1, -3)
    /\ i_val["sens_factor"] = PyBool(TRUE)

====
